---- MODULE Spec2Model ----
\* A model of the basileus authorization core: the in-memory session token
\* store (src/src/token.rs), the PKCE exchange (src/src/pkce.rs), the password
\* and user tables (src/src/pass.rs, src/src/user.rs) and the permission
\* algebra (src/src/perm.rs).
EXTENDS Integers, Sequences, FiniteSets, TLC

\* ---------------------------------------------------------------- bounds
\* Clock units per second: Instant/SystemTime are finer than one second and
\* Duration::as_secs truncates, so the clock is modelled in fractions of a second.
SubPerSec == 2
\* The clock runs up to the PKCE window plus this many clock units.
MaxExtra == 2
\* Largest duration handed to expire_token, in clock units.
MaxDur == 2
\* pkce_auth_req calls that are started in one behaviour.
MaxAuthCalls == 1
\* Writes of the perm table after which no further give_perm, revoke_perm or
\* set_perm call is started on the workers.
MaxWrites == 1

\* ------------------------------------------------------------- constants
\* pkce.rs:110  self.begin.elapsed().as_secs() <= 600
EXPIRY_SECS == 600

\* --------------------------------------------------------- input domains
Users == {"alice", "bob"}
Passwords == {"pw1", "pw2"}
Tokens == {"t1", "t2"}
Verifiers == {"v1", "v2"}
Threads == {"w1", "w2"}
Durations == 0..MaxDur
\* The PKCE validity window in clock units, and the clock values the model
\* visits: up to MaxExtra units past the start and past the end of the window.
Window == EXPIRY_SECS * SubPerSec
MaxNow == Window + MaxExtra
Jumps == {1, Window}

\* Option<T>: None is the empty set, Some(x) the singleton.
None == {}
Some(x) == {x}

\* user.rs:6  pub const ROOT_USER: &str = "root"
ROOT_USER == "root"
Names == Users \cup {ROOT_USER}

\* pkce.rs:27-34  enum CodeChallengeMethod
S256 == "S256"
Plain == "plain"

\* pkce.rs:15-22  struct CodeChallenge; the challenges the clients send.
CodeChallenges ==
    {[challenge |-> "h1", method |-> S256], [challenge |-> "v1", method |-> Plain]}

VARIABLES
    now,         \* the clock (Instant::now / SystemTime::now), in clock units
    store,       \* TokenModule.store : token -> (user, time)
    last,        \* the last completed call of the host on the token store
    users,       \* table user: the set of user names
    pass,        \* table pass: user -> the password its phc hash encodes
    perm,        \* table perm: user -> grp, the stored permission string
    allow_plain, \* PkceConfig.allow_plain
    pending,     \* PkceModule.pending : authorization code -> Pkce
    th,          \* the calls of pkce_auth_req / pkce_token_req in progress
    regs,        \* per code: pkce_auth_req calls that returned it
    reds,        \* per code: pkce_token_req calls that returned a token for it
    authCalls,   \* pkce_auth_req calls started
    pres,        \* the last completed call on the permission algebra
    pcall,       \* the calls of set_perm / give_perm / revoke_perm in progress
    ver,         \* the number of writes of the perm table by those calls
    lcall,       \* token-store and PKCE calls running lock by lock
    store_lock,  \* TokenModule.store, the RwLock: its writer and its readers
    pending_lock \* PkceModule.pending, the Mutex: its holder

vars ==
    <<now, store, last, users, pass, perm, allow_plain, pending, th, regs, reds,
      authCalls, pres, pcall, ver, lcall, store_lock, pending_lock>>
raceVars == <<pcall, ver>>
lockVars == <<lcall, store_lock, pending_lock>>
permVars == <<pres, raceVars, lockVars>>
dbVars == <<users, pass, perm>>
pkceData == <<allow_plain, pending, regs, reds, authCalls>>
pkceVars == <<th, pkceData>>

\* --------------------------------------------------------------- HashMap
Insert(m, k, v) == [x \in (DOMAIN m) \cup {k} |-> IF x = k THEN v ELSE m[x]]
Remove(m, k) == [x \in (DOMAIN m) \ {k} |-> m[x]]
Get(m, k) == IF k \in DOMAIN m THEN Some(m[k]) ELSE None
EmptyMap == [x \in {} |-> 0]

\* ------------------------------------------------------------ token store
\* token.rs:70-74  the retain predicate of expire_token:
\*   SystemTime::now().duration_since(*time).is_ok_and(|d| d < duration)
ExpireRetains(t, time, duration) ==
    /\ t >= time
    /\ t - time < duration

\* An issue_token that keeps one token per user: the user's earlier entries
\* are dropped.
store_issue_token_Single(s, token, user, t) ==
    Insert([k \in {x \in DOMAIN s : s[x].user # user} |-> s[k]],
           token, [user |-> user, time |-> t])

\* token.rs:41-51  insert(token, (user, SystemTime::now()))
store_issue_token(s, token, user, t) ==
    Insert(s, token, [user |-> user, time |-> t])

\* An invalidate_token that removes nothing.
store_invalidate_token_Keeps(s, token) == s

\* token.rs:53-56
store_invalidate_token(s, token) == Remove(s, token)

\* An invalidate_user_token that clears the whole store.
store_invalidate_user_token_All(s, user) == [x \in {} |-> 0]

\* token.rs:58-65  retain(|_, (u, _)| u != user)
store_invalidate_user_token(s, user) ==
    [k \in {x \in DOMAIN s : s[x].user # user} |-> s[k]]

\* token.rs:67-77
store_expire_token(s, duration, t) ==
    [k \in {x \in DOMAIN s : ExpireRetains(t, s[x].time, duration)} |-> s[k]]

\* A verify_token that rejects a token older than one clock unit.
store_verify_token_Expiring(s, token) ==
    IF token \in DOMAIN s /\ now - s[token].time <= 1
    THEN Some(s[token].user) ELSE None

\* token.rs:79-86  map.get(token).map(|(user, _)| user.clone())
store_verify_token(s, token) ==
    IF token \in DOMAIN s THEN Some(s[token].user) ELSE None

\* The record of the last completed call: its arguments, what it returned
\* (ret of a token-store call; res, code and token of a PKCE call), whether
\* the token or the user it named was in the store (found) and the flags of
\* the worker.
NoCall ==
    [op |-> "none", user |-> "", token |-> "", d |-> 0, ret |-> None,
     found |-> FALSE, res |-> "", code |-> <<>>, vp |-> FALSE, pwok |-> FALSE]

\* The host calls issue_token(user); rand_buf draws the token.
issue_token(user) ==
    \E token \in Tokens :
        /\ store' = store_issue_token(store, token, user, now)
        /\ last' = [NoCall EXCEPT !.op = "issue_token", !.user = user,
                                  !.token = token,
                                  !.found = token \in DOMAIN store]
        /\ UNCHANGED <<now, permVars, dbVars, pkceVars>>

invalidate_token(token) ==
    /\ store' = store_invalidate_token(store, token)
    /\ last' = [NoCall EXCEPT !.op = "invalidate_token", !.token = token,
                              !.found = token \in DOMAIN store]
    /\ UNCHANGED <<now, permVars, dbVars, pkceVars>>

invalidate_user_token(user) ==
    /\ store' = store_invalidate_user_token(store, user)
    /\ last' = [NoCall EXCEPT !.op = "invalidate_user_token", !.user = user,
                              !.found = \E k \in DOMAIN store :
                                            store[k].user = user]
    /\ UNCHANGED <<now, permVars, dbVars, pkceVars>>

expire_token(duration) ==
    /\ store' = store_expire_token(store, duration, now)
    /\ last' = [NoCall EXCEPT !.op = "expire_token", !.d = duration]
    /\ UNCHANGED <<now, permVars, dbVars, pkceVars>>

verify_token(token) ==
    /\ last' = [NoCall EXCEPT !.op = "verify_token", !.token = token,
                              !.ret = store_verify_token(store, token),
                              !.found = token \in DOMAIN store]
    /\ UNCHANGED <<now, permVars, store, dbVars, pkceVars>>


\* ------------------------------------------------------- users, passwords
\* user.rs:8-17  every name of the model is non-empty, graphic ASCII.
check_username(user) == user # ROOT_USER /\ user # ""

\* user.rs:42-46
exist_user(user) == user \in users

\* pass.rs:34-38
exist_pass(user) == user \in DOMAIN pass

\* user.rs:48-59; the trigger after_user_insert (perm.rs:22-28) adds the
\* user's empty perm row.
create_user(user) ==
    /\ ~exist_user(user)
    /\ check_username(user)
    /\ users' = users \cup {user}
    /\ perm' = IF user \in DOMAIN perm THEN perm ELSE Insert(perm, user, <<>>)
    /\ UNCHANGED <<now, permVars, store, last, pass, pkceVars>>

\* A delete_user on a database whose foreign keys do not cascade: the rows
\* of the user in pass and perm stay.
delete_user_NoCascade(user) ==
    /\ exist_user(user)
    /\ users' = users \ {user}
    /\ UNCHANGED <<now, permVars, store, last, pass, perm, pkceVars>>

\* user.rs:61-69; ON DELETE CASCADE removes the user's pass and perm rows.
delete_user(user) ==
    /\ exist_user(user)
    /\ users' = users \ {user}
    /\ pass' = Remove(pass, user)
    /\ perm' = Remove(perm, user)
    /\ UNCHANGED <<now, permVars, store, last, pkceVars>>

\* An update_pass that also ends the user's sessions and drops its pending
\* codes.
update_pass_Logout(user, pw) ==
    /\ exist_user(user)
    /\ pass' = Insert(pass, user, pw)
    /\ store' = [k \in {x \in DOMAIN store : store[x].user # user} |-> store[k]]
    /\ pending' = [c \in {x \in DOMAIN pending : pending[x].user # user} |-> pending[c]]
    /\ UNCHANGED <<now, permVars, last, users, perm, th, allow_plain, regs, reds,
                   authCalls>>

\* pass.rs:40-51  INSERT OR REPLACE INTO pass
update_pass(user, pw) ==
    /\ exist_user(user)
    /\ pass' = Insert(pass, user, pw)
    /\ UNCHANGED <<now, permVars, store, last, users, perm, pkceVars>>

\* pass.rs:67-77
delete_pass(user) ==
    /\ exist_user(user)
    /\ exist_pass(user)
    /\ pass' = Remove(pass, user)
    /\ UNCHANGED <<now, permVars, store, last, users, perm, pkceVars>>

\* ----------------------------------------------------- permission algebra
\* perm.rs:34-39  enum Perm { Root, Group(HashSet<String>) }
Root == [root |-> TRUE, grp |-> {}]
Group(S) == [root |-> FALSE, grp |-> S]

\* perm.rs:43-48
is_root(p) == p.root

\* perm.rs:60-65
grp_cnt(p) == IF p.root THEN 0 ELSE Cardinality(p.grp)

\* perm.rs:67-73
grps(p) == IF p.root THEN {} ELSE p.grp

\* An inherit that takes the other entity's groups instead of adding them.
inherit_Replace(self, from) ==
    IF self.root THEN Root
    ELSE IF from.root THEN Group(self.grp)
    ELSE Group(from.grp)

\* perm.rs:51-57  Perm::inherit
inherit(self, from) ==
    IF self.root THEN Root
    ELSE IF from.root THEN Group(self.grp)
    ELSE Group(self.grp \cup from.grp)

\* perm.rs:76-84  PartialEq
perm_eq(a, b) ==
    IF a.root /\ b.root THEN TRUE
    ELSE IF ~a.root /\ ~b.root THEN a.grp = b.grp
    ELSE FALSE

\* perm.rs:94-101  the arm (Group(lhs), Group(rhs)) of partial_cmp
group_cmp(lhs, rhs) ==
    IF lhs = rhs THEN Some("Equal")
    ELSE IF lhs \subseteq rhs THEN Some("Less")
    ELSE Some("Greater")

\* perm.rs:88-105  PartialOrd::partial_cmp
partial_cmp(a, b) ==
    IF a.root /\ b.root THEN Some("Equal")
    ELSE IF a.root THEN Some("Greater")
    ELSE IF b.root THEN Some("Less")
    ELSE group_cmp(a.grp, b.grp)

\* `perm >= req` (perm.rs:241, 245): PartialOrd::ge is
\* matches!(partial_cmp, Some(Greater | Equal)).
perm_ge(a, b) == partial_cmp(a, b) \in {Some("Greater"), Some("Equal")}

\* A sum that keeps only the right-hand side.
perm_add_Right(a, b) == b

\* perm.rs:113-122  Add
perm_add(a, b) ==
    IF ~a.root /\ ~b.root THEN Group(a.grp \cup b.grp) ELSE Root

\* A difference that removes nothing.
perm_sub_Keeps(a, b) == a

\* perm.rs:124-136  Sub
perm_sub(a, b) ==
    IF b.root THEN Group({})
    ELSE IF a.root THEN Root
    ELSE Group(a.grp \ b.grp)

\* A stored string is modelled by the sequence of its whitespace-separated
\* tokens. Range(s) is the set that split_whitespace().collect() builds.
Range(s) == {s[i] : i \in 1..Len(s)}

\* A parse that stops at the first whitespace.
from_str_First(s) ==
    IF s = <<>> THEN [root |-> FALSE, grp |-> {}]
    ELSE [root |-> s[1] = ROOT_USER, grp |-> IF s[1] = ROOT_USER THEN {} ELSE {s[1]}]

\* perm.rs:153-163  FromStr
from_str(s) ==
    IF ROOT_USER \in Range(s) THEN Root ELSE Group(Range(s))

\* The orders in which a HashSet may be iterated.
Orders(S) ==
    {s \in [1..Cardinality(S) -> S] : \A i, j \in 1..Cardinality(S) :
                                           i # j => s[i] # s[j]}

\* perm.rs:165-179  ToString: the strings to_string may build.
to_string(p) ==
    IF p.root THEN {<<ROOT_USER>>} ELSE Orders(p.grp)

\* Result<T, E>: err is "" for Ok(val).
Ok(v) == [err |-> "", val |-> v]
Err(e) == [err |-> e, val |-> Root]

\* A get_direct_perm without the existence check: the row query of a user
\* that does not exist fails in the database.
get_direct_perm_Unchecked(user) ==
    IF user = ROOT_USER THEN Ok(Root)
    ELSE IF user \notin DOMAIN perm THEN Err("SQL")
    ELSE Ok(perm_add(from_str(perm[user]), Group({user})))

\* perm.rs:202-213
get_direct_perm(user) ==
    IF user = ROOT_USER THEN Ok(Root)
    ELSE IF ~exist_user(user) THEN Err("UserNotExist")
    ELSE Ok(perm_add(from_str(perm[user]), Group({user})))

\* perm.rs:220-230  the loop of get_all_perm, from the set p.
RECURSIVE get_all_loop(_)
get_all_loop(p) ==
    IF \E g \in grps(p) : get_direct_perm(g).err # ""
    THEN Err("UserNotExist")
    ELSE LET news == {get_direct_perm(g).val : g \in grps(p)}
             parent == Group(p.grp \cup UNION {n.grp : n \in {m \in news : ~m.root}})
         IN IF grp_cnt(parent) = grp_cnt(p) THEN Ok(parent) ELSE get_all_loop(parent)

\* perm.rs:215-231
get_all_perm(user) ==
    LET direct == get_direct_perm(user)
    IN IF direct.err # "" THEN direct
       ELSE IF is_root(direct.val) THEN Ok(Root)
       ELSE get_all_loop(direct.val)

\* perm.rs:233-246
check_perm_result(user, req) ==
    IF user = ROOT_USER THEN Ok(TRUE)
    ELSE IF ~exist_user(user) THEN [err |-> "UserNotExist", val |-> FALSE]
    ELSE IF perm_ge(get_direct_perm(user).val, req) THEN Ok(TRUE)
    ELSE LET all == get_all_perm(user)
         IN IF all.err # "" THEN [err |-> all.err, val |-> FALSE]
            ELSE Ok(perm_ge(all.val, req))

\* The permission tokens and the permission values the host passes.
PermTokens == Users \cup {"x"}
Perms == {Root} \cup {Group(S) : S \in SUBSET PermTokens}

NoPermResult ==
    [op |-> "none", user |-> "", a |-> Root, b |-> Root, err |-> "",
     bool |-> FALSE, ord |-> None, held |-> Root, row |-> <<>>]

otherVars == <<now, store, last, pass, pkceVars, raceVars, lockVars>>

\* The host compares two permission values.
compare(a, b) ==
    /\ pres' = [NoPermResult EXCEPT !.op = "partial_cmp", !.a = a, !.b = b,
                                    !.ord = partial_cmp(a, b)]
    /\ UNCHANGED <<users, perm, otherVars>>

\* perm.rs:113-151  Add, Sub and Mul
perm_mul(a, b) ==
    IF a.root /\ b.root THEN Root
    ELSE IF a.root THEN Group(b.grp)
    ELSE IF b.root THEN Group(a.grp)
    ELSE Group(a.grp \cap b.grp)

\* The host combines two permission values with +, - or *.
combine(a, b) ==
    /\ \E o \in {"add", "sub", "mul"} :
        pres' = [NoPermResult EXCEPT !.op = o, !.a = a, !.b = b,
                    !.held = CASE o = "add" -> perm_add(a, b)
                               [] o = "sub" -> perm_sub(a, b)
                               [] o = "mul" -> perm_mul(a, b)]
    /\ UNCHANGED <<users, perm, otherVars>>

\* perm.rs:233-246  check_perm; held is what get_direct_perm returned (Root
\* when the call failed before it).
check_perm(user, req) ==
    /\ LET r == check_perm_result(user, req)
           held == get_direct_perm(user)
       IN pres' = [NoPermResult EXCEPT !.op = "check_perm", !.user = user,
                                       !.b = req, !.err = r.err, !.bool = r.val,
                                       !.held = held.val]
    /\ UNCHANGED <<users, perm, otherVars>>

\* perm.rs:202-213  get_direct_perm as a call of the host.
get_perm(user) ==
    /\ LET r == get_direct_perm(user)
       IN pres' = [NoPermResult EXCEPT !.op = "get_direct_perm", !.user = user,
                                       !.err = r.err, !.held = r.val]
    /\ UNCHANGED <<users, perm, otherVars>>

\* perm.rs:221-225  one round of the loop of get_all_perm: parent starts as
\* perm and inherits from get_direct_perm(grp) for every grp in gs.
RECURSIVE inherit_all(_, _)
inherit_all(parent, gs) ==
    IF gs = {} THEN parent
    ELSE LET grp == CHOOSE x \in gs : TRUE
         IN inherit_all(inherit(parent, get_direct_perm(grp).val), gs \ {grp})

\* perm.rs:215-219  the host calls get_all_perm(user): get_direct_perm, and
\* the loop is entered unless that failed or returned Root.
get_all_begin(user) ==
    /\ pres.op # "get_all_loop"
    /\ LET direct == get_direct_perm(user)
           ret == [NoPermResult EXCEPT !.op = "get_all_perm", !.user = user]
       IN pres' = IF direct.err # "" THEN [ret EXCEPT !.err = direct.err]
                  ELSE IF is_root(direct.val) THEN [ret EXCEPT !.held = Root]
                  ELSE [ret EXCEPT !.op = "get_all_loop", !.held = direct.val]
    /\ UNCHANGED <<users, perm, otherVars>>

\* perm.rs:220-230  one round of the loop: a failing get_direct_perm ends
\* the call; otherwise the call returns parent when it has as many groups as
\* perm, and goes round again with perm = parent when it has more.
get_all_round ==
    /\ pres.op = "get_all_loop"
    /\ LET ret == [NoPermResult EXCEPT !.op = "get_all_perm", !.user = pres.user]
           parent == inherit_all(pres.held, grps(pres.held))
       IN pres' = IF \E grp \in grps(pres.held) : get_direct_perm(grp).err # ""
                  THEN [ret EXCEPT !.err = "UserNotExist"]
                  ELSE IF grp_cnt(parent) = grp_cnt(pres.held)
                  THEN [ret EXCEPT !.held = parent]
                  ELSE [pres EXCEPT !.held = parent]
    /\ UNCHANGED <<users, perm, otherVars>>

\* A write that adds the new names to the row instead of replacing it.
set_perm_rows_Merge(user, p) ==
    {Insert(perm, user, grp) :
        grp \in to_string(perm_add(perm_sub(p, Group({user})),
                                   IF user \in DOMAIN perm THEN from_str(perm[user])
                                   ELSE Group({})))}

\* A write that stores the set as given, the user's own name included.
set_perm_rows_WithOwn(user, p) ==
    {Insert(perm, user, grp) : grp \in to_string(p)}

\* perm.rs:248-258  the row that set_perm writes: INSERT OR REPLACE of one
\* of the strings of perm - {user}.
set_perm_rows(user, p) ==
    {Insert(perm, user, grp) : grp \in to_string(perm_sub(p, Group({user})))}

\* perm.rs:248-258
set_perm(user, p) ==
    /\ IF ~exist_user(user)
       THEN /\ perm' = perm
            /\ pres' = [NoPermResult EXCEPT !.op = "set_perm", !.user = user,
                                            !.a = p, !.err = "UserNotExist"]
       ELSE /\ perm' \in set_perm_rows(user, p)
            /\ pres' = [NoPermResult EXCEPT !.op = "set_perm", !.user = user,
                                            !.a = p]
    /\ UNCHANGED <<users, otherVars>>

\* perm.rs:260-268  give_perm: get_direct_perm, then set_perm of the sum.
give_perm(user, p) ==
    /\ IF ~exist_user(user)
       THEN /\ perm' = perm
            /\ pres' = [NoPermResult EXCEPT !.op = "give_perm", !.user = user,
                                            !.a = p, !.err = "UserNotExist"]
       ELSE LET prev == get_direct_perm(user).val
            IN /\ perm' \in set_perm_rows(user, perm_add(prev, p))
               /\ pres' = [NoPermResult EXCEPT !.op = "give_perm", !.user = user,
                                               !.a = p, !.held = prev]
    /\ UNCHANGED <<users, otherVars>>

\* perm.rs:270-278  revoke_perm: get_direct_perm, then set_perm of the
\* difference.
revoke_perm(user, p) ==
    /\ IF ~exist_user(user)
       THEN /\ perm' = perm
            /\ pres' = [NoPermResult EXCEPT !.op = "revoke_perm", !.user = user,
                                            !.a = p, !.err = "UserNotExist"]
       ELSE LET prev == get_direct_perm(user).val
            IN /\ perm' \in set_perm_rows(user, perm_sub(prev, p))
               /\ pres' = [NoPermResult EXCEPT !.op = "revoke_perm", !.user = user,
                                               !.a = p, !.held = prev]
    /\ UNCHANGED <<users, otherVars>>

\* ------------------------------------- permission calls, query by query
\* A call of set_perm, give_perm or revoke_perm on a worker: the argument p,
\* what get_direct_perm returned (prev), the version of the perm table it
\* read (seen) and the version its write produced (wrote).
IdleCall ==
    [pc |-> "idle", op |-> "none", user |-> "", p |-> Root, prev |-> Root,
     err |-> "", seen |-> 0, wrote |-> 0]

\* The call of worker t returns with the error e ("" for Ok(())); the worker
\* keeps the record of the call until it starts the next one.
PermReturn(t, c, e) ==
    /\ pcall' = [pcall EXCEPT ![t] = [c EXCEPT !.pc = "done", !.err = e]]
    /\ pres' = [NoPermResult EXCEPT !.op = c.op, !.user = c.user, !.a = c.p,
                                    !.held = c.prev, !.err = e]

\* perm.rs:249, 261, 271  a worker starts set_perm, give_perm or revoke_perm:
\* the first query is exist_user.
perm_begin(t, op, user, p) ==
    /\ pcall[t].pc \in {"idle", "done"}
    /\ ver < MaxWrites
    /\ LET c == [IdleCall EXCEPT !.op = op, !.user = user, !.p = p]
       IN IF ~exist_user(user)
          THEN PermReturn(t, c, "UserNotExist")
          ELSE /\ pcall' = [pcall EXCEPT ![t] =
                              [c EXCEPT !.pc = IF op = "set_perm" THEN "write"
                                               ELSE "read"]]
               /\ pres' = pres
    /\ UNCHANGED <<now, store, last, dbVars, pkceVars, lockVars, ver>>

\* perm.rs:264, 274  let prev = self.get_direct_perm(user).await?
perm_read(t) ==
    /\ pcall[t].pc = "read"
    /\ LET r == get_direct_perm(pcall[t].user)
       IN IF r.err # ""
          THEN PermReturn(t, pcall[t], r.err)
          ELSE /\ pcall' = [pcall EXCEPT ![t].pc = "write", ![t].prev = r.val,
                                         ![t].seen = ver]
               /\ pres' = pres
    /\ UNCHANGED <<now, store, last, dbVars, pkceVars, lockVars, ver>>

\* perm.rs:265, 275  the value handed to set_perm: prev + perm, prev - perm,
\* or the argument of a direct set_perm.
perm_value(c) ==
    CASE c.op = "give_perm" -> perm_add(c.prev, c.p)
      [] c.op = "revoke_perm" -> perm_sub(c.prev, c.p)
      [] OTHER -> c.p

\* perm.rs:248-258 (called at 266 and 276)  set_perm: exist_user, then the
\* single INSERT OR REPLACE statement.
perm_write(t) ==
    /\ pcall[t].pc = "write"
    /\ IF ~exist_user(pcall[t].user)
       THEN /\ PermReturn(t, pcall[t], "UserNotExist")
            /\ UNCHANGED <<perm, ver>>
       ELSE /\ perm' \in set_perm_rows(pcall[t].user, perm_value(pcall[t]))
            /\ ver' = ver + 1
            /\ PermReturn(t, [pcall[t] EXCEPT !.wrote = ver + 1], "")
    /\ UNCHANGED <<now, store, last, users, pass, pkceVars, lockVars>>

\* ------------------------------------------------------------------ PKCE
\* pkce.rs:72-73  BASE64_URL_SAFE.encode(Sha256::digest(code_verifier)): the
\* digest is modelled as an injective table on the verifiers.
Sha256B64(v) == CASE v = "v1" -> "h1" [] v = "v2" -> "h2" [] OTHER -> "h?"

\* A verify that accepts every verifier.
CodeChallenge_verify_Any(cc, code_verifier) == TRUE

\* pkce.rs:68-78  CodeChallenge::verify
CodeChallenge_verify(cc, code_verifier) ==
    IF cc.method = S256
    THEN cc.challenge = Sha256B64(code_verifier)
    ELSE cc.challenge = code_verifier

\* A code that leaves the challenge out of the digest.
AuthCode_UserOnly(user, cc) == <<user, "", "">>

\* pkce.rs:175-176  the authorization code: the encoded digest of
\* format!("{user}, {method}:{challenge}"); the digest is modelled as
\* injective, a code is the triple that was formatted.
AuthCode(user, cc) == <<user, cc.method, cc.challenge>>

Codes == {AuthCode(u, cc) : u \in Users, cc \in CodeChallenges}

\* pkce.rs:109-111  Pkce::valid at clock t: elapsed().as_secs() <= 600
Pkce_valid(begin, t) == ((t - begin) \div SubPerSec) <= EXPIRY_SECS

\* A Pkce::new that stores a fixed user instead of the authorized one.
Pkce_new_WrongUser(user, cc, t) ==
    [user |-> "alice", code_challenge |-> cc, begin |-> t]

\* pkce.rs:98-105  Pkce::new
Pkce_new(user, cc, t) == [user |-> user, code_challenge |-> cc, begin |-> t]

NoCC == [challenge |-> "", method |-> ""]

\* A worker with no call in progress. A call keeps its arguments while it
\* runs, and two flags: vp (verify_pass was called) and pwok (the password
\* of the call was the stored one when verify_pass answered Ok).
Idle ==
    [pc |-> "idle", op |-> "none", user |-> "", pass |-> "", cc |-> NoCC,
     code |-> <<>>, verifier |-> "", pkce |-> None, vp |-> FALSE, pwok |-> FALSE]

\* The call of worker t returns: r is the variant of its result, code and
\* token what an Ok carries; the record of the call becomes `last`.
Return(t, r, code, token) ==
    /\ th' = [th EXCEPT ![t] = Idle]
    /\ last' = [NoCall EXCEPT !.op = th[t].op, !.res = r, !.code = code,
                              !.token = token,
                              !.vp = th[t].vp, !.pwok = th[t].pwok]

\* The call of worker t goes on at pc.
Goto(t, pc) ==
    /\ th' = [th EXCEPT ![t].pc = pc]
    /\ last' = last

\* The conversion of a VerifyPassError into the PkceAuthError that
\* pkce_auth_req returns through `?`.
PkceAuthError_from(e) ==
    IF e \in {"UserNotExist", "PassUndefined"} THEN "UserNotFound" ELSE e

\* A method check that is missing.
InsecurePlain_Skipped(cc) == FALSE

\* pkce.rs:167  the method check of pkce_auth_req
InsecurePlain(cc) == cc.method = Plain /\ ~allow_plain

\* pkce.rs:161-171  the host calls pkce_auth_req on a free worker: the method
\* check, then verify_pass is entered and its first query (pass.rs:54,
\* exist_user) answers.
pkce_auth_req(t, user, pw, cc) ==
    /\ th[t].pc = "idle"
    /\ authCalls < MaxAuthCalls
    /\ authCalls' = authCalls + 1
    /\ LET call == [Idle EXCEPT !.op = "pkce_auth_req", !.user = user,
                                !.pass = pw, !.cc = cc]
           ret(r, vp) == [NoCall EXCEPT !.op = "pkce_auth_req", !.res = r,
                                        !.vp = vp]
       IN IF InsecurePlain(cc)
          THEN th' = th /\ last' = ret("InsecurePlain", FALSE)
          ELSE \/ /\ exist_user(user)
                  /\ th' = [th EXCEPT ![t] =
                              [call EXCEPT !.pc = "exist_pass", !.vp = TRUE]]
                  /\ last' = last
               \/ /\ ~exist_user(user)
                  /\ th' = th
                  /\ last' = ret(PkceAuthError_from("UserNotExist"), TRUE)
               \/ /\ th' = th
                  /\ last' = ret(PkceAuthError_from("SQL"), TRUE)
    /\ UNCHANGED <<now, permVars, store, dbVars, allow_plain, pending, regs, reds>>

\* pass.rs:57-59  the query of exist_pass answers.
verify_pass_exist_pass(t) ==
    /\ th[t].pc = "exist_pass"
    /\ \/ /\ exist_pass(th[t].user)
          /\ Goto(t, "phc")
       \/ /\ ~exist_pass(th[t].user)
          /\ Return(t, PkceAuthError_from("PassUndefined"), <<>>, "")
       \/ Return(t, PkceAuthError_from("SQL"), <<>>, "")
    /\ UNCHANGED <<now, permVars, store, dbVars, pkceData>>

\* A comparison that accepts every password.
verify_encoded_Any(phc, pw) == TRUE

\* pass.rs:62  argon2::verify_encoded(&phc, pass): the stored hash is modelled
\* by the password it encodes.
verify_encoded(phc, pw) == phc = pw

\* pass.rs:60-64 and pkce.rs:171-173  the phc row is fetched (fetch_one fails
\* when the row is gone) and verify_encoded, a black box that may fail,
\* compares it with the password; on false pkce_auth_req is Unauthorized.
verify_pass_phc(t) ==
    /\ th[t].pc = "phc"
    /\ \/ /\ exist_pass(th[t].user)
          /\ verify_encoded(pass[th[t].user], th[t].pass)
          /\ th' = [th EXCEPT ![t].pc = "insert",
                              ![t].pwok = (pass[th[t].user] = th[t].pass)]
          /\ last' = last
       \/ /\ exist_pass(th[t].user)
          /\ ~verify_encoded(pass[th[t].user], th[t].pass)
          /\ Return(t, "Unauthorized", <<>>, "")
       \/ Return(t, PkceAuthError_from("SQL"), <<>>, "")
       \/ Return(t, PkceAuthError_from("Argon2"), <<>>, "")
    /\ UNCHANGED <<now, permVars, store, dbVars, pkceData>>

\* pkce.rs:175-184  the code is computed, Pkce::new reads the clock and the
\* entry is inserted under the lock of the pending map.
pkce_auth_insert(t) ==
    /\ th[t].pc = "insert"
    /\ LET auth_code == AuthCode(th[t].user, th[t].cc)
           pkce == Pkce_new(th[t].user, th[t].cc, now)
       IN /\ pending' = Insert(pending, auth_code, pkce)
          /\ Return(t, "Ok", auth_code, "")
          /\ regs' = [regs EXCEPT ![auth_code] = @ + 1]
    /\ UNCHANGED <<now, permVars, store, dbVars, allow_plain, reds, authCalls>>

\* A lookup that leaves the entry in the map (get instead of remove).
pending_remove_Keeps(m, code) == m

\* pkce.rs:197  self.pkce.pending.lock().unwrap().remove(code): the map that
\* is left.
pending_remove(m, code) == Remove(m, code)

\* pkce.rs:192-200  the host calls pkce_token_req on a free worker: the entry
\* is removed under the lock.
pkce_token_req(t, code, code_verifier) ==
    /\ th[t].pc = "idle"
    /\ pending' = pending_remove(pending, code)
    /\ \/ /\ code \in DOMAIN pending
          /\ th' = [th EXCEPT ![t] =
                      [Idle EXCEPT !.pc = "valid", !.op = "pkce_token_req",
                                   !.code = code, !.verifier = code_verifier,
                                   !.pkce = Some(pending[code])]]
          /\ last' = last
       \/ /\ code \notin DOMAIN pending
          /\ th' = th
          /\ last' = [NoCall EXCEPT !.op = "pkce_token_req", !.res = "InvalidCode",
                                    !.code = code]
    /\ UNCHANGED <<now, permVars, store, dbVars, allow_plain, regs, reds, authCalls>>

\* The entry a call of pkce_token_req took out of the pending map.
Taken(t) == CHOOSE e \in th[t].pkce : TRUE

\* pkce.rs:201-206  valid() reads the clock, then the verifier is compared.
pkce_token_valid(t) ==
    /\ th[t].pc = "valid"
    /\ \/ /\ ~Pkce_valid(Taken(t).begin, now)
          /\ Return(t, "ExpiredCode", th[t].code, "")
       \/ /\ Pkce_valid(Taken(t).begin, now)
          /\ ~CodeChallenge_verify(Taken(t).code_challenge, th[t].verifier)
          /\ Return(t, "InvalidVerifier", th[t].code, "")
       \/ /\ Pkce_valid(Taken(t).begin, now)
          /\ CodeChallenge_verify(Taken(t).code_challenge, th[t].verifier)
          /\ Goto(t, "issue")
    /\ UNCHANGED <<now, permVars, store, dbVars, pkceData>>

\* pkce.rs:207-208  issue_token(&pkce.user)
pkce_token_issue(t) ==
    /\ th[t].pc = "issue"
    /\ \E token \in Tokens :
        /\ store' = store_issue_token(store, token, Taken(t).user, now)
        /\ Return(t, "Ok", th[t].code, token)
    /\ reds' = [reds EXCEPT ![th[t].code] = @ + 1]
    /\ UNCHANGED <<now, permVars, dbVars, allow_plain, pending, regs, authCalls>>

\* ---------------------------------- token store and PKCE, lock by lock
\* A call on a worker, seen at the grain of its lock operations: the
\* arguments of the call and the entry pkce_token_req took out of the map.
\* On an idle worker pkce holds what the insert of its last pkce_auth_req
\* returned: the entry it replaced, if any.
NoLockCall ==
    [pc |-> "idle", op |-> "none", user |-> "", token |-> "", d |-> 0,
     pass |-> "", cc |-> NoCC, code |-> <<>>, verifier |-> "", pkce |-> None]

\* The RwLock with no guard alive.
Unlocked == [writer |-> {}, readers |-> {}]

\* What the lock-level calls leave alone.
lockFrame ==
    <<now, last, dbVars, allow_plain, regs, reds, authCalls, th, pres, raceVars>>

\* The calls of TokenManage that take the write lock, and the tokens
\* rand_buf draws in these runs.
WriteOps == {"issue_token", "invalidate_token", "invalidate_user_token", "expire_token"}
LockTokens == {"t1"}
LockUsers == {"alice"}

\* token.rs:41, 53, 58, 67, 79  a worker enters a call of TokenManage; its
\* first statement asks for the lock of the store.
token_call(t, op, user, token, d) ==
    /\ lcall[t].pc = "idle"
    /\ lcall' = [lcall EXCEPT ![t] =
                    [NoLockCall EXCEPT !.op = op, !.user = user, !.token = token,
                                       !.d = d,
                                       !.pc = IF op \in WriteOps THEN "store_write"
                                              ELSE "store_read"]]
    /\ UNCHANGED <<store, pending, store_lock, pending_lock, lockFrame>>

\* token.rs:44-47, 54, 59-62, 68  store.write().unwrap(): granted when no
\* guard of the RwLock is alive.
store_write_lock(t) ==
    /\ lcall[t].pc = "store_write"
    /\ store_lock = Unlocked
    /\ store_lock' = [store_lock EXCEPT !.writer = {t}]
    /\ lcall' = [lcall EXCEPT ![t].pc = "store_mutate"]
    /\ UNCHANGED <<store, pending, pending_lock, lockFrame>>

\* The write guard is dropped at the end of the statement (token.rs:48, 54,
\* 63) or of the function (token.rs:77).
store_write_unlock(l, t) == [l EXCEPT !.writer = @ \ {t}]

\* token.rs:48, 54, 63, 70-74  the mutation under the write guard, which is
\* then dropped; the call returns.
store_mutate(t) ==
    /\ lcall[t].pc = "store_mutate"
    /\ t \in store_lock.writer
    /\ LET c == lcall[t]
       IN CASE c.op \in {"issue_token", "pkce_token_req"} ->
                 \E token \in LockTokens :
                     store' = store_issue_token(store, token, c.user, now)
            [] c.op = "invalidate_token" ->
                 store' = store_invalidate_token(store, c.token)
            [] c.op = "invalidate_user_token" ->
                 store' = store_invalidate_user_token(store, c.user)
            [] OTHER ->
                 store' = store_expire_token(store, c.d, now)
    /\ store_lock' = store_write_unlock(store_lock, t)
    /\ lcall' = [lcall EXCEPT ![t] = NoLockCall]
    /\ UNCHANGED <<pending, pending_lock, lockFrame>>

\* token.rs:80  store.read().unwrap(): granted when no write guard is alive.
store_read_lock(t) ==
    /\ lcall[t].pc = "store_read"
    /\ store_lock.writer = {}
    /\ store_lock' = [store_lock EXCEPT !.readers = @ \cup {t}]
    /\ lcall' = [lcall EXCEPT ![t].pc = "store_get"]
    /\ UNCHANGED <<store, pending, pending_lock, lockFrame>>

\* token.rs:81-86  the lookup under the read guard, dropped at the return.
store_get(t) ==
    /\ lcall[t].pc = "store_get"
    /\ t \in store_lock.readers
    /\ store_lock' = [store_lock EXCEPT !.readers = @ \ {t}]
    /\ lcall' = [lcall EXCEPT ![t] = NoLockCall]
    /\ UNCHANGED <<store, pending, pending_lock, lockFrame>>

\* pkce.rs:161-169  a worker enters pkce_auth_req; after the method check it
\* awaits verify_pass.
auth_call(t, user, pw, cc) ==
    /\ lcall[t].pc = "idle"
    /\ ~InsecurePlain(cc)
    /\ lcall' = [lcall EXCEPT ![t] =
                    [NoLockCall EXCEPT !.op = "pkce_auth_req", !.user = user,
                                       !.pass = pw, !.cc = cc,
                                       !.pc = "verify_pass"]]
    /\ UNCHANGED <<store, pending, store_lock, pending_lock, lockFrame>>

\* pkce.rs:171-173 (pass.rs:53-65)  verify_pass answers: the call goes on to
\* the pending map when the password is the stored one and returns an error
\* otherwise, or when a query fails.
auth_verify_pass(t) ==
    /\ lcall[t].pc = "verify_pass"
    /\ LET c == lcall[t]
           ok == /\ exist_user(c.user)
                 /\ exist_pass(c.user)
                 /\ verify_encoded(pass[c.user], c.pass)
       IN \/ /\ ok
             /\ lcall' = [lcall EXCEPT ![t].pc = "pending_lock",
                                       ![t].code = AuthCode(c.user, c.cc)]
          \/ /\ ~ok
             /\ lcall' = [lcall EXCEPT ![t] = NoLockCall]
          \/ lcall' = [lcall EXCEPT ![t] = NoLockCall]
    /\ UNCHANGED <<store, pending, store_lock, pending_lock, lockFrame>>

\* pkce.rs:192-196  a worker enters pkce_token_req; its first statement asks
\* for the lock of the pending map.
token_req_call(t, code, code_verifier) ==
    /\ lcall[t].pc = "idle"
    /\ lcall' = [lcall EXCEPT ![t] =
                    [NoLockCall EXCEPT !.op = "pkce_token_req", !.code = code,
                                       !.verifier = code_verifier,
                                       !.pc = "pending_lock"]]
    /\ UNCHANGED <<store, pending, store_lock, pending_lock, lockFrame>>

\* pkce.rs:179-182, 197  pending.lock().unwrap(): granted when no guard of
\* the Mutex is alive.
pending_mutex_lock(t) ==
    /\ lcall[t].pc = "pending_lock"
    /\ pending_lock = {}
    /\ pending_lock' = {t}
    /\ lcall' = [lcall EXCEPT ![t].pc = "pending_op"]
    /\ UNCHANGED <<store, pending, store_lock, lockFrame>>

\* A guard of the pending map that stays alive after its statement.
pending_unlock_Held(l, t) == l

\* The guard is a temporary: it is dropped at the end of the statement that
\* took it (pkce.rs:183, 200).
pending_unlock(l, t) == l \ {t}

\* pkce.rs:179-184, 197-200  the insert or the remove under the guard, which
\* is then dropped: pkce_auth_req returns (HashMap::insert hands back the
\* entry it replaced), pkce_token_req returns InvalidCode or goes on with the
\* entry it took.
pending_op(t) ==
    /\ lcall[t].pc = "pending_op"
    /\ t \in pending_lock
    /\ LET c == lcall[t]
       IN IF c.op = "pkce_auth_req"
          THEN /\ pending' = Insert(pending, c.code, Pkce_new(c.user, c.cc, now))
               /\ lcall' = [lcall EXCEPT ![t] =
                               [NoLockCall EXCEPT !.pkce = Get(pending, c.code)]]
          ELSE /\ pending' = pending_remove(pending, c.code)
               /\ lcall' = IF c.code \in DOMAIN pending
                           THEN [lcall EXCEPT ![t].pc = "validate",
                                              ![t].pkce = Some(pending[c.code])]
                           ELSE [lcall EXCEPT ![t] = NoLockCall]
    /\ pending_lock' = pending_unlock(pending_lock, t)
    /\ UNCHANGED <<store, store_lock, lockFrame>>

\* pkce.rs:201-207  valid() and verify(): the call returns an error, or
\* enters issue_token for the user of the entry.
token_req_validate(t) ==
    /\ lcall[t].pc = "validate"
    /\ LET c == lcall[t]
           e == CHOOSE x \in c.pkce : TRUE
       IN IF Pkce_valid(e.begin, now) /\ CodeChallenge_verify(e.code_challenge, c.verifier)
          THEN lcall' = [lcall EXCEPT ![t].pc = "store_write", ![t].user = e.user]
          ELSE lcall' = [lcall EXCEPT ![t] = NoLockCall]
    /\ UNCHANGED <<store, pending, store_lock, pending_lock, lockFrame>>

\* The steps of worker t that take a lock, and its other steps after the
\* call was entered.
LockStep(t) == store_write_lock(t) \/ store_read_lock(t) \/ pending_mutex_lock(t)
RunStep(t) ==
    store_mutate(t) \/ store_get(t) \/ auth_verify_pass(t) \/ pending_op(t)
        \/ token_req_validate(t)

\* Time passes.
Tick ==
    \E j \in Jumps :
        /\ now + j <= MaxNow
        /\ (now + j) % Window <= MaxExtra
        /\ now' = now + j
        /\ UNCHANGED <<permVars, store, last, dbVars, pkceVars>>

\* Time passes, one clock unit at a time, in the first MaxExtra units.
TickEarly ==
    /\ now < MaxExtra
    /\ now' = now + 1
    /\ UNCHANGED <<permVars, store, last, dbVars, pkceVars>>

Init ==
    /\ now = 0
    /\ store = EmptyMap
    /\ last = NoCall
    /\ users = {}
    /\ pass = EmptyMap
    /\ perm = EmptyMap
    /\ allow_plain = FALSE
    /\ pending = EmptyMap
    /\ th = [t \in Threads |-> Idle]
    /\ regs = [c \in Codes |-> 0]
    /\ reds = [c \in Codes |-> 0]
    /\ authCalls = 0
    /\ pres = NoPermResult
    /\ pcall = [t \in Threads |-> IdleCall]
    /\ ver = 0
    /\ lcall = [t \in Threads |-> NoLockCall]
    /\ store_lock = Unlocked
    /\ pending_lock = {}

NextToken ==
    \/ \E u \in Users : issue_token(u)
    \/ \E k \in Tokens : invalidate_token(k)
    \/ \E u \in Users : invalidate_user_token(u)
    \/ \E d \in Durations : expire_token(d)
    \/ \E k \in Tokens : verify_token(k)
    \/ Tick

SpecToken == Init /\ [][NextToken]_vars

\* The credential path: the host's user and password calls, and calls of
\* pkce_auth_req running beside them.
NextAuth ==
    \/ \E u \in Names : create_user(u)
    \/ \E u \in Users : delete_user(u)
    \/ \E u \in Users, pw \in Passwords : update_pass(u, pw)
    \/ \E u \in Users : delete_pass(u)
    \/ \E t \in Threads, u \in Users, pw \in Passwords, cc \in CodeChallenges :
            pkce_auth_req(t, u, pw, cc)
    \/ \E t \in Threads : verify_pass_exist_pass(t)
    \/ \E t \in Threads : verify_pass_phc(t)
    \/ \E t \in Threads : pkce_auth_insert(t)

\* The permission algebra: the host's user calls and permission calls.
NextPerm ==
    \/ \E u \in Names : create_user(u)
    \/ \E u \in Users : delete_user(u)
    \/ \E u \in Names, p \in Perms : check_perm(u, p)
    \/ \E u \in Names : get_perm(u)
    \/ \E u \in Names, p \in Perms : set_perm(u, p)
    \/ \E u \in Names, p \in Perms : give_perm(u, p)
    \/ \E u \in Names, p \in Perms : revoke_perm(u, p)

SpecPerm == Init /\ [][NextPerm]_vars

\* The permission values the host grants when it also uses the reserved name
\* as a group name: Perm::Group is built from any set of strings.
GrantTokens == {"x", ROOT_USER}
GrantPerms == {Root} \cup {Group(S) : S \in SUBSET GrantTokens}

\* Granting: the host's user calls, and set_perm, give_perm and
\* get_direct_perm with group sets that may hold the reserved name.
NextGrant ==
    \/ \E u \in Names : create_user(u)
    \/ \E u \in Users : delete_user(u)
    \/ \E u \in Names : get_perm(u)
    \/ \E u \in Names, p \in GrantPerms : set_perm(u, p)
    \/ \E u \in Names, p \in GrantPerms : give_perm(u, p)

SpecGrant == Init /\ [][NextGrant]_vars

\* The sets the racing calls give, revoke and set.
RacePerms == {Group({"x"}), Group({"bob"})}

\* Racing permission calls: two workers run set_perm, give_perm and
\* revoke_perm query by query on the rows of the users the host created.
NextRace ==
    \/ \E u \in Users : create_user(u)
    \/ \E t \in Threads, op \in {"set_perm", "give_perm", "revoke_perm"},
          u \in Users, p \in RacePerms : perm_begin(t, op, u, p)
    \/ \E t \in Threads : perm_read(t)
    \/ \E t \in Threads : perm_write(t)

SpecRace == Init /\ [][NextRace]_vars

\* perm.rs:153-179  the host serialises a permission value with to_string
\* and parses the string back with from_str; held is the parsed value.
round_trip(p) ==
    /\ \E row \in to_string(p) :
          pres' = [NoPermResult EXCEPT !.op = "round_trip", !.a = p,
                                       !.row = row, !.held = from_str(row)]
    /\ UNCHANGED <<users, perm, otherVars>>

\* The group names of the values that are serialised: names of users, a name
\* of no user, the reserved name and the reserved name in another case.
RoundTokens == {"alice", "bob", "x", ROOT_USER, "Root"}
RoundPerms == {Root} \cup {Group(S) : S \in SUBSET RoundTokens}

NextRound == \E p \in RoundPerms : round_trip(p)

SpecRound == Init /\ [][NextRound]_vars

\* The pure operators of Perm, applied to every pair of permission values.
NextOrder ==
    \/ \E a, b \in Perms : compare(a, b)
    \/ \E a, b \in Perms : combine(a, b)

SpecOrder == Init /\ [][NextOrder]_vars

\* Basileus::new with either configuration of PKCE.
InitAuth ==
    /\ now = 0
    /\ store = EmptyMap
    /\ last = NoCall
    /\ users = {}
    /\ pass = EmptyMap
    /\ perm = EmptyMap
    /\ allow_plain \in BOOLEAN
    /\ pending = EmptyMap
    /\ th = [t \in Threads |-> Idle]
    /\ regs = [c \in Codes |-> 0]
    /\ reds = [c \in Codes |-> 0]
    /\ authCalls = 0
    /\ pres = NoPermResult
    /\ pcall = [t \in Threads |-> IdleCall]
    /\ ver = 0
    /\ lcall = [t \in Threads |-> NoLockCall]
    /\ store_lock = Unlocked
    /\ pending_lock = {}

SpecAuth == InitAuth /\ [][NextAuth]_vars

\* Basileus::new opens a database that holds both users, each with a password.
InitPkce ==
    /\ now = 0
    /\ store = EmptyMap
    /\ last = NoCall
    /\ users = Users
    /\ pass = [u \in Users |-> IF u = "alice" THEN "pw1" ELSE "pw2"]
    /\ perm = [u \in Users |-> <<>>]
    /\ allow_plain \in BOOLEAN
    /\ pending = EmptyMap
    /\ th = [t \in Threads |-> Idle]
    /\ regs = [c \in Codes |-> 0]
    /\ reds = [c \in Codes |-> 0]
    /\ authCalls = 0
    /\ pres = NoPermResult
    /\ pcall = [t \in Threads |-> IdleCall]
    /\ ver = 0
    /\ lcall = [t \in Threads |-> NoLockCall]
    /\ store_lock = Unlocked
    /\ pending_lock = {}

\* The exchange: calls of pkce_auth_req and pkce_token_req on two workers,
\* while time passes.
NextPkce ==
    \/ \E t \in Threads, u \in Users, pw \in Passwords, cc \in CodeChallenges :
            pkce_auth_req(t, u, pw, cc)
    \/ \E t \in Threads : verify_pass_exist_pass(t)
    \/ \E t \in Threads : verify_pass_phc(t)
    \/ \E t \in Threads : pkce_auth_insert(t)
    \/ \E t \in Threads, c \in Codes, v \in Verifiers : pkce_token_req(t, c, v)
    \/ \E t \in Threads : pkce_token_valid(t)
    \/ \E t \in Threads : pkce_token_issue(t)
    \/ Tick

SpecPkce == InitPkce /\ [][NextPkce]_vars

\* Locking: two workers run the calls of the token store and of the PKCE
\* exchange lock by lock.
NextLock ==
    \/ \E t \in Threads, u \in LockUsers : token_call(t, "issue_token", u, "", 0)
    \/ \E t \in Threads, k \in LockTokens : token_call(t, "invalidate_token", "", k, 0)
    \/ \E t \in Threads, u \in LockUsers : token_call(t, "invalidate_user_token", u, "", 0)
    \/ \E t \in Threads : token_call(t, "expire_token", "", "", 1)
    \/ \E t \in Threads, k \in LockTokens : token_call(t, "verify_token", "", k, 0)
    \/ \E t \in Threads, u \in LockUsers, pw \in Passwords, cc \in CodeChallenges :
            auth_call(t, u, pw, cc)
    \/ \E t \in Threads, u \in LockUsers, cc \in CodeChallenges, v \in Verifiers :
            token_req_call(t, AuthCode(u, cc), v)
    \/ \E t \in Threads : store_write_lock(t)
    \/ \E t \in Threads : store_mutate(t)
    \/ \E t \in Threads : store_read_lock(t)
    \/ \E t \in Threads : store_get(t)
    \/ \E t \in Threads : auth_verify_pass(t)
    \/ \E t \in Threads : pending_mutex_lock(t)
    \/ \E t \in Threads : pending_op(t)
    \/ \E t \in Threads : token_req_validate(t)

\* Fair scheduling: a worker that can run does run, and a worker that asks
\* for a lock that is free again and again gets it.
LockFairness ==
    \A t \in Threads : WF_vars(RunStep(t)) /\ SF_vars(LockStep(t))

SpecLock == InitPkce /\ [][NextLock]_vars /\ LockFairness

\* Registration: a worker runs pkce_auth_req and pkce_token_req lock by lock
\* for both users, while time passes.
CodeThreads == {"w1"}
NextCode ==
    \/ \E t \in CodeThreads, u \in Users, pw \in Passwords, cc \in CodeChallenges :
            auth_call(t, u, pw, cc)
    \/ \E t \in CodeThreads, c \in Codes, v \in Verifiers : token_req_call(t, c, v)
    \/ \E t \in CodeThreads : auth_verify_pass(t)
    \/ \E t \in CodeThreads : pending_mutex_lock(t)
    \/ \E t \in CodeThreads : pending_op(t)
    \/ \E t \in CodeThreads : token_req_validate(t)
    \/ \E t \in CodeThreads : store_write_lock(t)
    \/ \E t \in CodeThreads : store_mutate(t)
    \/ TickEarly

SpecCode == InitPkce /\ [][NextCode]_vars

\* Sessions beside the identity store: the host deletes users and changes or
\* deletes passwords while tokens are issued, verified and invalidated and
\* codes are registered and redeemed.
NextSession ==
    \/ \E u \in Users : delete_user(u)
    \/ \E u \in Users, pw \in Passwords : update_pass(u, pw)
    \/ \E u \in Users : delete_pass(u)
    \/ \E u \in LockUsers : issue_token(u)
    \/ \E k \in Tokens : verify_token(k)
    \/ \E u \in LockUsers : invalidate_user_token(u)
    \/ \E t \in CodeThreads, u \in LockUsers, pw \in Passwords, cc \in CodeChallenges :
            pkce_auth_req(t, u, pw, cc)
    \/ \E t \in CodeThreads : verify_pass_exist_pass(t)
    \/ \E t \in CodeThreads : verify_pass_phc(t)
    \/ \E t \in CodeThreads : pkce_auth_insert(t)
    \/ \E t \in CodeThreads, c \in Codes, v \in Verifiers : pkce_token_req(t, c, v)
    \/ \E t \in CodeThreads : pkce_token_valid(t)
    \/ \E t \in CodeThreads : pkce_token_issue(t)

SpecSession == InitPkce /\ [][NextSession]_vars

\* Membership graphs: the host creates three users and sets their groups to
\* names of users, then calls get_all_perm, which runs round by round.
GraphUsers == {"alice", "bob", "carol"}
GraphPerms == {Root} \cup {Group(S) : S \in SUBSET GraphUsers}
NextGraph ==
    \/ pres.op # "get_all_loop" /\ \E u \in GraphUsers : create_user(u)
    \/ pres.op # "get_all_loop" /\ \E u \in GraphUsers, p \in GraphPerms : set_perm(u, p)
    \/ \E u \in GraphUsers : get_all_begin(u)
    \/ get_all_round

\* A call of get_all_perm that can run does run.
SpecGraph == Init /\ [][NextGraph]_vars /\ WF_vars(get_all_round)

\* ================================================================ claims
\* What a pending entry or a session is compared with in the claims below.
CodeUser(c) == c[1]
Present(c) == IF c \in DOMAIN pending THEN 1 ELSE 0
InFlight(c) ==
    Cardinality({t \in Threads : th[t].op = "pkce_token_req" /\ th[t].code = c})
Matches(cc, v) ==
    \/ cc.method = S256 /\ cc.challenge = Sha256B64(v)
    \/ cc.method = Plain /\ cc.challenge = v
SubMap(m1, m2) == \A k \in DOMAIN m1 : k \in DOMAIN m2 /\ m1[k] = m2[k]
Propagated == {"SQL", "Argon2"}

\* C1: a code is redeemed at most once per registration: for every code, the
\* calls of pkce_token_req that returned a token, plus the calls that hold its
\* entry, plus the entry still pending, never exceed the calls of
\* pkce_auth_req that returned the code; every further call found no entry
\* (InvalidCode).
C1_RedeemedAtMostOnce ==
    \A c \in Codes :
        /\ reds[c] <= regs[c]
        /\ reds[c] + InFlight(c) + Present(c) <= regs[c]

\* C1 witness: one call holds the entry of a code and is about to mint the
\* token, while a concurrent call with the same code has returned InvalidCode.
C1_Witness ==
    \E t \in Threads :
        /\ th[t].pc = "issue"
        /\ last.op = "pkce_token_req"
        /\ last.res = "InvalidCode"
        /\ last.code = th[t].code
        /\ regs[th[t].code] = 1

\* The subset order on permission sets.
SubsetOrder(A, B) ==
    IF A = B THEN Some("Equal")
    ELSE IF A \subseteq B THEN Some("Less")
    ELSE IF B \subseteq A THEN Some("Greater")
    ELSE None

\* C2: for an existing user, check_perm returns true if and only if the set
\* get_direct_perm returns is a superset of the required set.
C2_CheckIffSuperset ==
    (pres.op = "check_perm" /\ pres.user \in users /\ ~pres.b.root /\ ~pres.held.root)
        => ((pres.err = "" /\ pres.bool) <=> (pres.b.grp \subseteq pres.held.grp))

\* C3: comparing two permission sets gives the subset order, and no order for
\* an incomparable pair.
C3_CompareIsSubsetOrder ==
    (pres.op = "partial_cmp" /\ ~pres.a.root /\ ~pres.b.root)
        => pres.ord = SubsetOrder(pres.a.grp, pres.b.grp)

\* C4: expire_token(d) removes exactly the entries of age > d and keeps every
\* entry of age <= d.
C4_ExpireRemovesExactlyOlder ==
    [][\A d \in Durations :
          expire_token(d) =>
              store' = [k \in {x \in DOMAIN store : now - store[x].time <= d}
                          |-> store[k]]]_vars

\* C5: pkce_token_req on an entry whose age exceeds 600 seconds fails with
\* ExpiredCode and mints no token.
C5_ExpiredAfter600Seconds ==
    [][\A t \in Threads :
          (pkce_token_valid(t) /\ now - Taken(t).begin > EXPIRY_SECS * SubPerSec)
              => (last'.res = "ExpiredCode" /\ th'[t] = Idle)]_vars

\* A step in which a call of pkce_token_req returns an error.
TokenReqFails(t) ==
    \/ \E c \in Codes, v \in Verifiers : pkce_token_req(t, c, v) /\ c \notin DOMAIN pending
    \/ pkce_token_valid(t) /\ th'[t] = Idle

\* C6: every failed pkce_token_req is terminal and leaves the sessions alone:
\* the call removes the entry of its code when it looks it up; with an entry
\* in its window and a verifier that does not match it returns
\* InvalidVerifier; a call that finds no entry returns InvalidCode; and a step
\* in which the call fails changes no entry of the token store and puts no
\* entry back into the pending map.
C6_FailureIsTerminal ==
    [][\A t \in Threads :
          /\ \A c \in Codes, v \in Verifiers :
                pkce_token_req(t, c, v) =>
                    /\ c \notin DOMAIN pending'
                    /\ c \notin DOMAIN pending =>
                          (last'.res = "InvalidCode" /\ th'[t] = Idle)
          /\ (/\ pkce_token_valid(t)
              /\ now - Taken(t).begin <= EXPIRY_SECS * SubPerSec
              /\ ~Matches(Taken(t).code_challenge, th[t].verifier))
                => (last'.res = "InvalidVerifier" /\ th'[t] = Idle)
          /\ TokenReqFails(t) =>
                /\ store' = store
                /\ SubMap(pending', pending)
                /\ last'.res \in {"InvalidCode", "ExpiredCode", "InvalidVerifier"}
                /\ last'.token = ""]_vars

\* C6 witness: a call with a wrong verifier has returned InvalidVerifier and
\* the entry of its code is gone.
C6_Witness ==
    /\ last.op = "pkce_token_req"
    /\ last.res = "InvalidVerifier"
    /\ last.code \notin DOMAIN pending

\* C7: a pkce_token_req that finds the entry of a returned code, is in the
\* 600-second window and has a matching verifier goes on to mint a token; the
\* token it returns verifies to the user stored in the entry it consumed, who
\* is the user pkce_auth_req was called with.
C7_TokenOwnedByAuthorizedUser ==
    [][\A t \in Threads :
          /\ \A c \in Codes, v \in Verifiers :
                (pkce_token_req(t, c, v) /\ c \in DOMAIN pending) =>
                    /\ th'[t].pc = "valid"
                    /\ pending[c].user = CodeUser(c)
          /\ (/\ pkce_token_valid(t)
              /\ now - Taken(t).begin <= EXPIRY_SECS * SubPerSec
              /\ Matches(Taken(t).code_challenge, th[t].verifier))
                => th'[t].pc = "issue"
          /\ pkce_token_issue(t) =>
                /\ last'.res = "Ok"
                /\ store_verify_token(store', last'.token) = Some(Taken(t).user)
                /\ Taken(t).user = CodeUser(th[t].code)]_vars

\* C7 witness: the code registered for bob was redeemed and the token
\* verifies to bob.
C7_Witness ==
    /\ last.op = "pkce_token_req"
    /\ last.res = "Ok"
    /\ CodeUser(last.code) = "bob"
    /\ store_verify_token(store, last.token) = Some("bob")

\* C8: with plain disabled, pkce_auth_req with method plain returns
\* InsecurePlain at once: verify_pass is not called, no call is left running
\* and the pending map is unchanged, whatever the user and the password.
C8_InsecurePlainBeforePassword ==
    [][/\ \A t \in Threads, u \in Users, p \in Passwords, cc \in CodeChallenges :
              (pkce_auth_req(t, u, p, cc) /\ cc.method = Plain /\ ~allow_plain) =>
                  /\ last'.res = "InsecurePlain"
                  /\ ~last'.vp
                  /\ th' = th
                  /\ pending' = pending
       /\ last'.res = "InsecurePlain" => ~last'.vp]_vars

\* C8 witness: a call was rejected as InsecurePlain although the user exists
\* with a password.
C8_Witness ==
    /\ last.op = "pkce_auth_req"
    /\ last.res = "InsecurePlain"
    /\ DOMAIN pass # {}

\* A step in which a call of pkce_auth_req returns.
AuthReqReturns(t) ==
    \/ th[t].op = "pkce_auth_req" /\ th'[t] = Idle
    \/ \E u \in Users, p \in Passwords, cc \in CodeChallenges :
          pkce_auth_req(t, u, p, cc) /\ th' = th

\* C9: the pending map changes only when a pkce_auth_req whose password was
\* the stored one returns Ok with the code of the new entry; a password that
\* does not match gives Unauthorized and a user without a password row
\* UserNotFound (or a propagated storage or hashing error); and a call that
\* fails leaves the pending map unchanged and returns no code.
C9_PendingOnlyAfterPasswordCheck ==
    [][/\ pending' # pending =>
              \E t \in Threads :
                  /\ pkce_auth_insert(t)
                  /\ th[t].pwok
                  /\ last'.res = "Ok"
                  /\ last'.code = AuthCode(th[t].user, th[t].cc)
                  /\ DOMAIN pending' = DOMAIN pending \cup {last'.code}
       /\ \A t \in Threads :
              /\ (/\ verify_pass_phc(t)
                  /\ exist_pass(th[t].user)
                  /\ pass[th[t].user] # th[t].pass)
                    => (th'[t] = Idle /\ last'.res \in {"Unauthorized"} \cup Propagated)
              /\ (verify_pass_exist_pass(t) /\ ~exist_pass(th[t].user))
                    => (th'[t] = Idle /\ last'.res \in {"UserNotFound"} \cup Propagated)
              /\ (AuthReqReturns(t) /\ last'.res # "Ok")
                    => (pending' = pending /\ last'.code = <<>>)]_vars

\* C9 witness: a call with the wrong password has returned Unauthorized.
C9_Witness ==
    /\ last.op = "pkce_auth_req"
    /\ last.res = "Unauthorized"
    /\ pending = EmptyMap

\* C10: after issue_token(u) returns t, verify_token(t) is Some(u); after
\* invalidate_token(t), verify_token(t) is None; and invalidate_token of a
\* token that is not in the store leaves the store unchanged.
C10_IssueVerifyInvalidate ==
    [][/\ \A u \in Users :
              issue_token(u) => store_verify_token(store', last'.token) = Some(u)
       /\ \A k \in Tokens :
              /\ invalidate_token(k) => store_verify_token(store', k) = None
              /\ (invalidate_token(k) /\ k \notin DOMAIN store) => store' = store
              /\ (verify_token(k) /\ last.op = "issue_token" /\ last.token = k)
                    => last'.ret = Some(last.user)
              /\ (verify_token(k) /\ last.op = "invalidate_token" /\ last.token = k)
                    => last'.ret = None]_vars

\* C10 witness: invalidate_token was called with a token that was not in the
\* store while another token was, and that token still verifies.
C10_Witness ==
    /\ last.op = "invalidate_token"
    /\ ~last.found
    /\ \E k \in DOMAIN store : store_verify_token(store, k) # None

\* C11: verify_token is a pure lookup. It never changes the store; it returns
\* the owner of every token that is in the store, however old the entry is,
\* and None for every other token; and the entry of a token changes only by
\* an issue_token that draws it, an invalidate_token of it, an
\* invalidate_user_token of its owner or an expire_token sweep.
C11_VerifyIsPureLookup ==
    [][\A k \in Tokens :
          /\ verify_token(k) =>
                /\ store' = store
                /\ k \in DOMAIN store => last'.ret = Some(store[k].user)
                /\ k \notin DOMAIN store => last'.ret = None
          /\ Get(store', k) # Get(store, k) =>
                \/ last'.op = "issue_token" /\ last'.token = k
                \/ /\ k \in DOMAIN store
                   /\ k \notin DOMAIN store'
                   /\ \/ last'.op = "invalidate_token" /\ last'.token = k
                      \/ last'.op = "invalidate_user_token" /\ last'.user = store[k].user
                      \/ last'.op = "expire_token"]_vars

\* C11 witness: verify_token has returned the owner of a token that is older
\* than the whole PKCE window.
C11_Witness ==
    /\ last.op = "verify_token"
    /\ last.ret = Some("alice")
    /\ last.token \in DOMAIN store
    /\ now - store[last.token].time >= Window

\* C12: invalidate_user_token(u) removes every entry owned by u and no other
\* entry: afterwards every token that u owned verifies to None and every
\* other token verifies as before, with its entry unchanged.
C12_InvalidateAllRemovesExactlyOwned ==
    [][\A u \in Users :
          invalidate_user_token(u) =>
              \A k \in Tokens :
                  IF store_verify_token(store, k) = Some(u)
                  THEN store_verify_token(store', k) = None
                  ELSE Get(store', k) = Get(store, k)]_vars

\* C12 witness: invalidate_user_token removed the tokens of its user while a
\* token of another user stays in the store.
C12_Witness ==
    /\ last.op = "invalidate_user_token"
    /\ last.found
    /\ \E k \in DOMAIN store : store[k].user # last.user

\* C13: several tokens of one user are valid together: issue_token leaves
\* every entry other than the one of the token it draws unchanged, and
\* invalidate_token leaves every entry other than the one it names unchanged.
C13_MultipleTokensPerUser ==
    [][/\ \A u \in Users :
              issue_token(u) =>
                  \A k \in Tokens \ {last'.token} : Get(store', k) = Get(store, k)
       /\ \A k1 \in Tokens :
              invalidate_token(k1) =>
                  \A k2 \in Tokens \ {k1} : Get(store', k2) = Get(store, k2)]_vars

\* C13 witness: a second token was issued to a user and both tokens verify to
\* that user.
C13_Witness ==
    /\ last.op = "issue_token"
    /\ ~last.found
    /\ \E k \in DOMAIN store :
          /\ k # last.token
          /\ store_verify_token(store, k) = Some(last.user)
          /\ store_verify_token(store, last.token) = Some(last.user)

\* The set a stored row parses to, and what get_direct_perm of an existing
\* user returns from the rows m.
RowSet(m, u) == from_str(m[u])
GetFrom(m, u) == perm_add(RowSet(m, u), Group({u}))

\* A step in which the host calls the permission operation op with the user
\* u: the user table is untouched and the call is the one recorded last.
PermCall(op, u) ==
    /\ users' = users
    /\ pres' # pres \/ perm' # perm
    /\ pres'.op = op
    /\ pres'.user = u
PermOps == {"get_direct_perm", "check_perm", "set_perm", "give_perm", "revoke_perm"}

\* C14 as stated: for every existing user u and permission set P, after
\* revoke_perm(u, P) the set get_direct_perm(u) returns contains no element
\* of P.
C14_RevokeLeavesNoElement ==
    [][\A u \in Users :
          (PermCall("revoke_perm", u) /\ exist_user(u) /\ ~pres'.a.root) =>
              /\ pres'.err = ""
              /\ grps(GetFrom(perm', u)) \cap pres'.a.grp = {}]_vars

\* C14 amended: for every existing user u and permission set P, revoke_perm
\* succeeds whether or not the elements of P were held; afterwards
\* get_direct_perm(u) of a user that did not hold Root is the earlier set
\* minus P plus u's own name, so it contains no element of P other than u's
\* own name; a user that held Root still holds Root unless P is Root, which
\* leaves only u's own name; and a second revoke_perm(u, P) would write the
\* same set again.
C14_RevokeLeavesOnlyOwnName ==
    [][\A u \in Users :
          (PermCall("revoke_perm", u) /\ exist_user(u)) =>
              LET p == pres'.a
                  prev == GetFrom(perm, u)
                  got == GetFrom(perm', u)
                  again == perm_sub(perm_sub(got, p), Group({u}))
              IN /\ pres'.err = ""
                 /\ p.root => got = Group({u})
                 /\ (~p.root /\ prev.root) => got = Root
                 /\ (~p.root /\ ~prev.root) =>
                        /\ got = Group((prev.grp \ p.grp) \cup {u})
                        /\ got.grp \cap p.grp \subseteq {u}
                 /\ \A row \in to_string(again) : from_str(row) = RowSet(perm', u)]_vars

\* C14 witness: a revoke_perm of a set with an element the user held and an
\* element the user did not hold has succeeded, and neither is held now.
C14_Witness ==
    /\ pres.op = "revoke_perm"
    /\ pres.err = ""
    /\ pres.user \in users
    /\ ~pres.a.root /\ ~pres.held.root
    /\ (pres.a.grp \cap pres.held.grp) \ {pres.user} # {}
    /\ pres.a.grp \ pres.held.grp # {}
    /\ grps(GetFrom(perm, pres.user)) \cap pres.a.grp = {}

\* C15 as stated: for every existing user u and permission set P, after
\* give_perm(u, P) get_direct_perm(u) returns exactly the union of what it
\* returned before and P.
C15_GiveIsUnion ==
    [][\A u \in Users, p \in GrantPerms :
          (give_perm(u, p) /\ exist_user(u) /\ ~p.root /\ ~GetFrom(perm, u).root) =>
              /\ pres'.err = ""
              /\ GetFrom(perm', u) = Group(GetFrom(perm, u).grp \cup p.grp)]_vars

\* C15 amended: for every existing user u and permission set P that does not
\* hold the reserved name root, give_perm(u, P) run alone followed by
\* get_direct_perm(u) returns exactly the union of the set before and P;
\* when P is Root or holds the name root, or the user held Root, it returns
\* Root; and a second give_perm(u, P) would write the same set again.
C15_GiveIsUnionUnlessRoot ==
    [][\A u \in Users, p \in GrantPerms :
          (give_perm(u, p) /\ exist_user(u)) =>
              LET prev == GetFrom(perm, u)
                  got == GetFrom(perm', u)
                  again == perm_sub(perm_add(got, p), Group({u}))
              IN /\ pres'.err = ""
                 /\ (p.root \/ prev.root \/ ROOT_USER \in p.grp) => got = Root
                 /\ (~p.root /\ ~prev.root /\ ROOT_USER \notin p.grp) =>
                        got = Group(prev.grp \cup p.grp)
                 /\ \A row \in to_string(again) : from_str(row) = RowSet(perm', u)]_vars

\* C15 witness: give_perm added a name the user did not hold to a set that
\* already held another name, and get_direct_perm now returns the union.
C15_Witness ==
    /\ pres.op = "give_perm"
    /\ pres.err = ""
    /\ pres.user \in users
    /\ ~pres.a.root /\ ~pres.held.root
    /\ ROOT_USER \notin pres.a.grp
    /\ pres.a.grp \ pres.held.grp # {}
    /\ GetFrom(perm, pres.user) = Group(pres.held.grp \cup pres.a.grp)

\* C16 as stated: for every permission set S, parsing the string that S
\* serialises to gives S.
C16_RoundTrip ==
    (pres.op = "round_trip" /\ ~pres.a.root) => pres.held = pres.a

\* C16 amended: for every permission set S of non-empty whitespace-free
\* tokens that does not hold the reserved name root, parsing the string S
\* serialises to gives S as a set, in whatever order the tokens were written;
\* Root, and every set that holds the name root, parses back to Root.
C16_RoundTripUnlessRoot ==
    pres.op = "round_trip" =>
        /\ (~pres.a.root /\ ROOT_USER \notin pres.a.grp) => pres.held = pres.a
        /\ (pres.a.root \/ ROOT_USER \in pres.a.grp) => pres.held = Root
        /\ Range(pres.row) = IF pres.a.root THEN {ROOT_USER} ELSE pres.a.grp

\* C16 witness: a set of three names, one of them the reserved name in
\* another case, was written in an order and parsed back to itself.
C16_Witness ==
    /\ pres.op = "round_trip"
    /\ pres.a = Group({"bob", "x", "Root"})
    /\ pres.row = <<"x", "Root", "bob">>
    /\ pres.held = pres.a

C18_InsufficientIsFalseNotError ==
    (/\ pres.op = "check_perm"
     /\ pres.user \in users
     /\ ~pres.b.root /\ ~pres.held.root
     /\ pres.held.grp \subseteq pres.b.grp
     /\ pres.held.grp # pres.b.grp)
        => (pres.err = "" /\ ~pres.bool)

\* C19: give_perm and revoke_perm read the row and write it in separate
\* steps. Every write replaces exactly the row of the writer's user, by the
\* set computed from what the writer itself read (or was given, for
\* set_perm), whatever was written since that read, and leaves every other
\* row as it is: the last writer wins.
C19_LastWriterWins ==
    [][\A t \in Threads :
          (perm_write(t) /\ exist_user(pcall[t].user)) =>
              LET c == pcall[t]
                  u == c.user
              IN /\ DOMAIN perm' = DOMAIN perm \cup {u}
                 /\ \A v \in DOMAIN perm \ {u} : perm'[v] = perm[v]
                 /\ RowSet(perm', u) = perm_sub(perm_value(c), Group({u}))
                 /\ c.op = "give_perm" =>
                        GetFrom(perm', u) = perm_add(c.prev, c.p)
                 /\ c.op = "revoke_perm" =>
                        GetFrom(perm', u) =
                            perm_add(perm_sub(c.prev, c.p), Group({u}))
                 /\ pcall'[t].wrote = ver + 1]_vars

\* C19 witness: a lost update. Both workers ran give_perm on alice, one with
\* x and one with bob; both read the row before either wrote; both returned
\* Ok; and the row holds only what the second writer gave: x is lost.
C19_Witness ==
    /\ pcall["w1"] = [pc |-> "done", op |-> "give_perm", user |-> "alice",
                      p |-> Group({"x"}), prev |-> Group({"alice"}),
                      err |-> "", seen |-> 0, wrote |-> 1]
    /\ pcall["w2"] = [pc |-> "done", op |-> "give_perm", user |-> "alice",
                      p |-> Group({"bob"}), prev |-> Group({"alice"}),
                      err |-> "", seen |-> 0, wrote |-> 2]
    /\ ver = 2
    /\ GetFrom(perm, "alice") = Group({"alice", "bob"})

\* C20: in every reachable state a row of the perm table exists for a name
\* if and only if that user exists: create_user adds the user's row, empty;
\* delete_user removes it; and set_perm, give_perm and revoke_perm neither
\* add a row for a missing user nor remove the row of an existing one.
C20_PermRowIffUser ==
    [][/\ DOMAIN perm = users
       /\ DOMAIN perm' = users'
       /\ \A u \in Names :
              /\ create_user(u) => perm'[u] = <<>>
              /\ delete_user(u) => u \notin DOMAIN perm']_vars

\* C20 witness: alice was given permissions and deleted, bob exists with a
\* row that is not empty, and the perm table holds bob's row only.
C20_Witness ==
    /\ pres.op = "give_perm"
    /\ pres.user = "alice"
    /\ pres.err = ""
    /\ users = {"bob"}
    /\ DOMAIN perm = {"bob"}
    /\ perm["bob"] # <<>>

\* Worker t holds a guard of the token store, or of the pending map; worker t
\* is blocked asking for one.
HoldsStore(t) == t \in store_lock.writer \cup store_lock.readers
HoldsPending(t) == t \in pending_lock
WantsStore(t) == lcall[t].pc \in {"store_write", "store_read"}
WantsPending(t) == lcall[t].pc = "pending_lock"

\* C21: under fair scheduling every issue, verify, invalidate,
\* invalidate_all, expire, pkce_auth_req and pkce_token_req call that was
\* entered eventually returns, and no worker ever asks for (or holds) the
\* lock of the token store while it holds the lock of the pending map, nor
\* the reverse.
C21_EveryCallCompletes ==
    /\ [](\A t \in Threads :
            /\ ~(HoldsPending(t) /\ (HoldsStore(t) \/ WantsStore(t)))
            /\ ~(HoldsStore(t) /\ (HoldsPending(t) \/ WantsPending(t))))
    /\ \A t \in Threads : (lcall[t].pc # "idle") ~> (lcall[t].pc = "idle")

\* A pkce_token_req call waits for the write lock of the token store while
\* the other worker holds it, and a third party could take the pending map.
C21_Witness ==
    \E t1, t2 \in Threads :
        /\ t1 # t2
        /\ lcall[t1].op = "pkce_token_req"
        /\ lcall[t1].pc = "store_write"
        /\ t2 \in store_lock.writer
        /\ pending_lock = {}

\* C22: the authorization code is a function of (user, method, challenge)
\* alone and a different user or challenge gives a different code; a
\* successful pkce_auth_req writes the entry of its code with the current
\* time, replacing the entry an earlier registration of the same code left,
\* and changes no other entry; a pkce_token_req takes the one entry of its
\* code out of the map, so that the code is absent afterwards however often
\* it was registered, and changes no other entry.
C22_SameCodeSharesOneEntry ==
    [][\A t \in Threads :
         LET c == lcall[t]
             others == DOMAIN pending \ {c.code}
         IN /\ (c.pc = "pending_op" /\ lcall'[t].pc # "pending_op") =>
                  /\ \A k \in others : k \in DOMAIN pending' /\ pending'[k] = pending[k]
                  /\ DOMAIN pending' \subseteq DOMAIN pending \cup {c.code}
            /\ (c.pc = "pending_op" /\ c.op = "pkce_auth_req" /\ lcall'[t].pc = "idle") =>
                  /\ \A u \in Users, cc \in CodeChallenges :
                        (AuthCode(u, cc) = c.code) <=> (u = c.user /\ cc = c.cc)
                  /\ c.code \in DOMAIN pending'
                  /\ pending'[c.code] =
                        [user |-> c.user, code_challenge |-> c.cc, begin |-> now]
            /\ (c.pc = "pending_op" /\ c.op = "pkce_token_req"
                    /\ lcall'[t].pc # "pending_op") =>
                  /\ c.code \notin DOMAIN pending'
                  /\ (lcall'[t].pc = "validate") <=> (c.code \in DOMAIN pending)
            /\ (\A w \in Threads : lcall[w].pc # "pending_op") => pending' = pending
      ]_vars

\* A second registration of a code has replaced the entry of the first one
\* with a later registration time, while the entry of the other user, older
\* than both, is still in the map.
C22_Witness ==
    \E t \in Threads :
        /\ lcall[t].pc = "idle"
        /\ lcall[t].pkce # None
        /\ LET e == CHOOSE x \in lcall[t].pkce : TRUE
               code == AuthCode(e.user, e.code_challenge)
           IN /\ code \in DOMAIN pending
              /\ pending[code].begin > e.begin
              /\ \E k \in DOMAIN pending :
                    /\ CodeUser(k) # e.user
                    /\ pending[k].begin < e.begin

\* C23 as stated: for every existing user u and permission set P, after
\* set_perm(u, P) get_direct_perm(u) returns exactly P.
C23_SetThenGetReturnsP ==
    [][\A u \in Users :
          (PermCall("set_perm", u) /\ exist_user(u)) =>
              GetFrom(perm', u) = pres'.a]_vars

\* C23 amended: for every existing user u and permission set P, set_perm(u, P)
\* succeeds and replaces the row of u, whatever it held, by P without u's own
\* name, leaving every other row alone; get_direct_perm(u) then returns P
\* together with u's own name, or Root when P is Root or holds the name root;
\* and a second set_perm(u, P) would write the same set again.
C23_SetThenGetReturnsPAndOwnName ==
    [][\A u \in Users :
          (PermCall("set_perm", u) /\ exist_user(u)) =>
              LET p == pres'.a
                  got == GetFrom(perm', u)
                  again == perm_sub(p, Group({u}))
              IN /\ pres'.err = ""
                 /\ (p.root \/ ROOT_USER \in p.grp) => got = Root
                 /\ (~p.root /\ ROOT_USER \notin p.grp) =>
                        /\ got = Group(p.grp \cup {u})
                        /\ RowSet(perm', u) = Group(p.grp \ {u})
                 /\ DOMAIN perm' = DOMAIN perm
                 /\ \A v \in DOMAIN perm \ {u} : perm'[v] = perm[v]
                 /\ \A row \in to_string(again) : from_str(row) = RowSet(perm', u)]_vars

\* C23 witness: set_perm wrote the set {x} for an existing user while another
\* user holds a different row, and get_direct_perm now returns x and the
\* user's own name.
C23_Witness ==
    /\ pres.op = "set_perm"
    /\ pres.err = ""
    /\ pres.user \in users
    /\ pres.a = Group({"x"})
    /\ RowSet(perm, pres.user) = Group({"x"})
    /\ GetFrom(perm, pres.user) = Group({"x", pres.user})
    /\ \E v \in users \ {pres.user} : RowSet(perm, v) = Root

\* C24: delete_user, update_pass and delete_pass leave the token store and
\* the pending map as they are; verify_token returns the owner of a stored
\* token whether or not that user still exists; a pkce_token_req takes the
\* pending entry of its code and, the entry being valid and the verifier
\* matching, issues a token to the entry's user whether or not that user or
\* its password still exists; and a token leaves the store only when
\* invalidate_user_token is called for its owner.
C24_SessionsOutliveIdentity ==
    [][/\ (users' # users \/ pass' # pass) => (store' = store /\ pending' = pending)
       /\ (last' # last /\ last'.op = "verify_token") =>
             last'.ret = IF last'.token \in DOMAIN store
                         THEN Some(store[last'.token].user) ELSE None
       /\ \A k \in DOMAIN store :
             k \notin DOMAIN store' =>
                 (last'.op = "invalidate_user_token" /\ last'.user = store[k].user)
       /\ \A t \in Threads :
             /\ (th[t].pc = "idle" /\ th'[t].op = "pkce_token_req") =>
                   th'[t].pkce = Some(pending[th'[t].code])
             /\ (th[t].pc = "valid" /\ th'[t] # th[t]
                     /\ Pkce_valid(Taken(t).begin, now)
                     /\ Matches(Taken(t).code_challenge, th[t].verifier)) =>
                   th'[t].pc = "issue"
             /\ (th[t].pc = "issue" /\ th'[t] # th[t]) =>
                   /\ last'.res = "Ok"
                   /\ last'.token \in DOMAIN store'
                   /\ store'[last'.token].user = Taken(t).user
      ]_vars

\* C24 witness: a user was deleted; a token it owns is in the store and the
\* last verify_token returned that user, and a code registered for it is
\* still pending.
C24_Witness ==
    \E u \in Users \ users :
        /\ last.op = "verify_token"
        /\ last.ret = Some(u)
        /\ last.token \in DOMAIN store
        /\ store[last.token].user = u
        /\ \E c \in DOMAIN pending : pending[c].user = u

\* The membership graph: the groups the row of g names (a row that is Root
\* passes nothing on), the sets of users closed under membership, and the
\* least closed set that holds u.
Members(g) == grps(RowSet(perm, g))
AllGroupsExist == \A v \in DOMAIN perm : Members(v) \subseteq users
Closed(S) == \A g \in S : g \in DOMAIN perm /\ Members(g) \subseteq S
Closure(u) ==
    CHOOSE S \in SUBSET GraphUsers :
        /\ u \in S
        /\ Closed(S)
        /\ \A T \in SUBSET GraphUsers : (u \in T /\ Closed(T)) => S \subseteq T

\* C25: when every group name in the perm table is an existing user, every
\* round of the loop of get_all_perm keeps the groups accumulated so far and
\* fails on none, the loop goes round again exactly when the round added a
\* group, and the call returns the least set that holds the user and is
\* closed under membership, cycles included; and every call of get_all_perm
\* that entered the loop returns.
C25_GetAllPermReturnsClosure ==
    /\ [][(AllGroupsExist /\ pres.op = "get_all_loop" /\ pres' # pres) =>
             /\ pres'.err = ""
             /\ pres.held.grp \subseteq pres'.held.grp
             /\ (pres'.op = "get_all_loop") <=> (pres'.held # pres.held)
             /\ (pres'.op = "get_all_perm") =>
                   /\ pres'.held = Group(Closure(pres.user))
                   /\ get_all_perm(pres.user) = Ok(pres'.held)]_vars
    /\ (pres.op = "get_all_loop") ~> (pres.op = "get_all_perm")

\* C25 witness: on the cycle alice -> bob -> carol -> alice a call took a
\* round that added a group and returned all three names.
C25_Witness ==
    /\ pres.op = "get_all_perm"
    /\ pres.err = ""
    /\ pres.user = "alice"
    /\ users = GraphUsers
    /\ Members("alice") = {"bob"}
    /\ Members("bob") = {"carol"}
    /\ Members("carol") = {"alice"}
    /\ pres.held = Group(GraphUsers)

\* C26 as stated: for every existing user u, get_direct_perm(u) returns a
\* set that holds u's own name, whatever was set, given and revoked.
C26_OwnNameAlwaysHeld ==
    \A u \in users :
        /\ get_direct_perm(u).err = ""
        /\ u \in grps(get_direct_perm(u).val)

\* C26 amended: for every existing user u, whatever was set, given and
\* revoked, get_direct_perm(u) succeeds and returns Root when the stored row
\* holds the name root and a set that holds u's own name otherwise; and the
\* stored row never holds u's own name.
C26_OwnNameHeldUnlessRoot ==
    \A u \in users :
        /\ u \in DOMAIN perm
        /\ u \notin Range(perm[u])
        /\ get_direct_perm(u).err = ""
        /\ ROOT_USER \in Range(perm[u]) => get_direct_perm(u).val = Root
        /\ ROOT_USER \notin Range(perm[u]) => u \in grps(get_direct_perm(u).val)

\* C26 witness: revoke_perm(u, {u}) has run on an existing user: the row is
\* empty and get_direct_perm(u) returns u's own name alone.
C26_Witness ==
    /\ pres.op = "revoke_perm"
    /\ pres.err = ""
    /\ pres.user \in users
    /\ pres.a = Group({pres.user})
    /\ perm[pres.user] = <<>>
    /\ get_direct_perm(pres.user) = Ok(Group({pres.user}))

====
